---- MODULE Spec2Model ----
(***************************************************************************)
(* Neat.com backup automation: NeatBot.run_backup, NeatBot.login,          *)
(* NeatBot.get_folders, NeatBot.export_folder_files (src/neat_bot.py) and  *)
(* the file organizer organize_file / sanitize_folder_name (src/utils.py). *)
(*                                                                         *)
(* The browser, the web page and the human operator are the environment:  *)
(* every driver call may raise, and what the page shows is drawn from      *)
(* small sets.  The worker's position in run_backup is pc.                 *)
(***************************************************************************)
EXTENDS Integers, Sequences, FiniteSets, TLC

\* ------------------------------------------------------------------ bounds
\* number of run_backup calls explored
MaxRuns == 2
\* rows one page of the file grid shows (the code asks the page for 100)
PageSize == 1
\* extra seconds one challenge poll may take beyond its sleep
MaxPollJitter == 1
\* files the organizer's destination tree starts with in SpecOrganize
MaxPreexisting == 2

\* ------------------------------------------------------- program constants
\* login: while (time.time() - wait_start) < 60
CaptchaTimeout == 60
\* login: time.sleep(2) at the end of each challenge poll
PollSleep == 2

\* ---------------------------------------------------------------- strings
\* characters are one-letter strings; a folder name is a sequence of them
Whitespace == {" ", "\t", "\n"}
UnsafeChars == {"<", ">", ":", "\"", "\\", "|", "?", "*"}

RECURSIVE SplitSlash(_)
\* str.split('/')
SplitSlash(s) ==
  IF \A i \in DOMAIN s : s[i] # "/" THEN <<s>>
  ELSE LET k == CHOOSE i \in DOMAIN s : s[i] = "/" /\ \A j \in 1..(i-1) : s[j] # "/"
       IN  <<SubSeq(s, 1, k-1)>> \o SplitSlash(SubSeq(s, k+1, Len(s)))

RECURSIVE StripLeft(_)
\* a plausible slip: lstrip() for strip()
StripLeft(s) ==
  IF s = <<>> THEN s
  ELSE IF s[1] \in Whitespace THEN StripLeft(Tail(s))
  ELSE s

RECURSIVE Strip(_)
\* str.strip()
Strip(s) ==
  IF s = <<>> THEN s
  ELSE IF s[1] \in Whitespace THEN Strip(Tail(s))
  ELSE IF s[Len(s)] \in Whitespace THEN Strip(SubSeq(s, 1, Len(s)-1))
  ELSE s

\* the inner loop: safe_part.replace(char, '_') for every unsafe char
ReplaceUnsafe(part) ==
  [i \in DOMAIN part |-> IF part[i] \in UnsafeChars THEN "_" ELSE part[i]]

RECURSIVE JoinSlash(_)
\* '/'.join(parts)
JoinSlash(parts) ==
  IF Len(parts) = 1 THEN parts[1]
  ELSE parts[1] \o <<"/">> \o JoinSlash(Tail(parts))

sanitize_folder_name(name) ==
  LET path_parts == SplitSlash(name)
      sanitized_parts == [i \in DOMAIN path_parts |-> Strip(ReplaceUnsafe(path_parts[i]))]
  IN  JoinSlash(sanitized_parts)

\* ------------------------------------------------------------ file system
\* A file is [stem, doc, size]: its name without the .pdf suffix, the remote
\* document it holds and its byte size.  The backup tree maps
\* <<folder path, file name>> to the content [doc, size] stored there.
Suffix == ".pdf"
PlainName(stem) == stem \o Suffix
NumberedName(stem, counter) == stem \o "_" \o ToString(counter) \o Suffix

Content(file) == [doc |-> file.doc, size |-> file.size]
NoFile == [stem |-> "", doc |-> <<"none", 0>>, size |-> 0]

TreePut(tr, path, content) ==
  [p \in (DOMAIN tr) \cup {path} |-> IF p = path THEN content ELSE tr[p]]

RemoveAt(seq, i) == SubSeq(seq, 1, i-1) \o SubSeq(seq, i+1, Len(seq))

RECURSIVE NextFreeName(_, _, _, _)
\* while dest_path.exists(): dest_path = dest_folder / f"{stem}_{counter}{suffix}"
NextFreeName(tr, folder, stem, counter) ==
  IF <<folder, NumberedName(stem, counter)>> \in DOMAIN tr
  THEN NextFreeName(tr, folder, stem, counter + 1)
  ELSE NumberedName(stem, counter)

\* a plausible slip: no duplicate-name loop, rename() replaces the target
DestPathOverwrite(tr, folder, stem) == PlainName(stem)

\* dest_path = dest_folder / source.name, then the duplicate-name loop
DestPath(tr, folder, stem) ==
  IF <<folder, PlainName(stem)>> \in DOMAIN tr
  THEN NextFreeName(tr, folder, stem, 1)
  ELSE PlainName(stem)

\* organize_file(source_path, folder_name, backup_root) on the tree tr and the
\* download directory dl, where the source is the i-th file of dl (i = 0: the
\* source path does not exist).  Result "None" or the final file name.
organize_file(tr, dl, i, folder) ==
  IF i = 0 THEN [tree |-> tr, downloads |-> dl, result |-> "None"]
  ELSE LET dest == DestPath(tr, folder, dl[i].stem)
       IN  [tree      |-> TreePut(tr, <<folder, dest>>, Content(dl[i])),
            downloads |-> RemoveAt(dl, i),
            result    |-> dest]

\* ------------------------------------------------------------ remote site
\* The cabinet of the account: two folders, named by their sidebar test id.
\* A document has a title (also the stem of the file the browser downloads)
\* and a byte size.  The remote content never changes.
FolderIds == {"mycabinet-1", "mycabinet-2"}
FolderTitle(id) == IF id = "mycabinet-1" THEN <<"T", ":", "1">> ELSE <<"T", "_", "1">>
RemoteDocs(id) ==
  IF id = "mycabinet-1"
  THEN << [title |-> "A", size |-> 1], [title |-> "B", size |-> 2] >>
  ELSE << [title |-> "A", size |-> 3] >>

\* rows of page p of a folder's grid
PageDocs(id, p) ==
  LET n == Len(RemoteDocs(id))
      lo == (p - 1) * PageSize + 1
      hi == IF p * PageSize < n THEN p * PageSize ELSE n
  IN  [i \in 1..(IF hi >= lo THEN hi - lo + 1 ELSE 0) |->
         [title |-> RemoteDocs(id)[lo + i - 1].title,
          size  |-> RemoteDocs(id)[lo + i - 1].size,
          doc   |-> <<id, lo + i - 1>>]]
HasNextPage(id, p) == p * PageSize < Len(RemoteDocs(id))

\* sidebar elements matching [data-testid^="mycabinet-"]; title <<>> stands for
\* an element whose span[title] is missing or empty
SidebarElems ==
  { [test_id |-> id, title |-> FolderTitle(id)] : id \in FolderIds }
  \cup { [test_id |-> "mycabinet-2", title |-> <<>>],
         [test_id |-> "sidebar-item-mycabinet", title |-> <<"C">>] }
SidebarLists ==
  {<<>>} \cup { <<a>> : a \in SidebarElems }
         \cup { <<a, b>> : a \in SidebarElems, b \in SidebarElems }

Selector(test_id) == "[data-testid=\"" \o test_id \o "\"]"

RECURSIVE FoldersFromNoSeen(_, _, _)
\* a plausible slip: the loop without the processed_ids test
FoldersFromNoSeen(elems, folders, processed_ids) ==
  IF elems = <<>> THEN folders
  ELSE LET elem == Head(elems)
           skip == elem.test_id = "sidebar-item-mycabinet" \/ elem.title = <<>>
       IN  IF skip THEN FoldersFromNoSeen(Tail(elems), folders, processed_ids)
           ELSE FoldersFromNoSeen(Tail(elems),
                                  Append(folders, [name |-> elem.title, id |-> elem.test_id,
                                                   selector |-> Selector(elem.test_id)]),
                                  processed_ids \cup {elem.test_id})

RECURSIVE FoldersFrom(_, _, _)
\* the loop of NeatBot._get_folders_simple over folder_elements
FoldersFrom(elems, folders, processed_ids) ==
  IF elems = <<>> THEN folders
  ELSE LET elem == Head(elems)
           skip == \/ elem.test_id = "sidebar-item-mycabinet"
                   \/ elem.test_id \in processed_ids
                   \/ elem.title = <<>>
       IN  IF skip THEN FoldersFrom(Tail(elems), folders, processed_ids)
           ELSE FoldersFrom(Tail(elems),
                            Append(folders, [name |-> elem.title, id |-> elem.test_id,
                                             selector |-> Selector(elem.test_id)]),
                            processed_ids \cup {elem.test_id})

get_folders_simple(elems) == FoldersFrom(elems, <<>>, {})

\* NeatBot.get_folders: the cabinet is located and expanded, then
\* _get_folders_simple reads the sidebar; raises stands for an exception
\* while locating or expanding the cabinet or reading the sidebar elements
get_folders(raises, elems) ==
  IF raises THEN <<>> ELSE get_folders_simple(elems)

\* ------------------------------------------------------------------ state
VARIABLES
  pc,            \* position of the worker in run_backup / login / export_folder_files
  runNo,         \* run_backup calls started
  driver,        \* self.driver: 0 is None, n the n-th browser launched
  browsers,      \* state of every browser process launched: "running" / "quit"
  failed_files,  \* self.failed_files
  stats,         \* the stats dict of the current run_backup call
  url,           \* driver.current_url: "login" or "dashboard" (contains files/folders)
  captchaShown,  \* the page shows a displayed challenge indicator
  lg,            \* locals of login and what it did
  folders,       \* folders returned by get_folders
  fi,            \* index of the folder the loop of run_backup is at
  ex,            \* locals of export_folder_files
  downloads,     \* *.pdf files of the browser's download directory, oldest first
  tree,          \* the backup tree
  gui,           \* NeatBackupGUI: its fields, its worker thread, the Tk event queue
  net,           \* the interception variant: the browser's performance log and
                 \* the locals of _intercept_api_response
  retry,         \* locals of retry_failed_files and what it did
  obs            \* observations of the run, for stating properties

vars == <<pc, runNo, driver, browsers, failed_files, stats, url, captchaShown, lg,
          folders, fi, ex, downloads, tree, gui, net, retry, obs>>

ZeroStats ==
  [total_folders |-> 0, total_files |-> 0, successful_files |-> 0, failed_files |-> 0,
   errors |-> <<>>, failed_file_details |-> <<>>, success |-> FALSE]

LoginLocals ==
  [captcha_detected |-> FALSE, captcha_solved |-> FALSE, waited |-> 0,
   result |-> "none", submitClicked |-> FALSE, sawDashboard |-> FALSE,
   polledAt |-> 0, timedOut |-> FALSE, pollSaw |-> "none"]

ExportLocals ==
  [folder_name |-> <<>>, folder_id |-> "", folder_selector |-> "",
   exported_count |-> 0, failed_count |-> 0, errors |-> <<>>,
   expected_total |-> 0, page_number |-> 1, checkboxes |-> <<>>, idx |-> 1,
   file_title |-> "", folder_failed |-> FALSE, raised |-> FALSE,
   selected |-> {}]

NoObs ==
  [exportCalls |-> <<>>, getFoldersCalled |-> FALSE, item |-> [kind |-> "none"],
   org |-> [called |-> FALSE], processed |-> 0, clean |-> TRUE,
   treeAfterClean |-> <<>>, cleanRuns |-> 0, failedFolders |-> {},
   call |-> [fn |-> "none"],
   pageStart |-> 0]

InitBot ==
  /\ pc = "idle" /\ runNo = 0 /\ driver = 0 /\ browsers = <<>>
  /\ failed_files = <<>> /\ stats = ZeroStats
  /\ url = "login" /\ captchaShown = FALSE /\ lg = LoginLocals
  /\ folders = <<>> /\ fi = 1 /\ ex = ExportLocals

StaleDownload == [stem |-> "old", doc |-> <<"stale", 0>>, size |-> 9]

\* no NeatBackupGUI: run_backup is called directly, the bot has no status
\* callback
NoGui ==
  [window |-> FALSE,            \* a NeatBackupGUI exists
   bot |-> 0,                   \* self.bot: 0 is None, n the n-th NeatBot created
   status_callback |-> "none",  \* status_callback of the bot the worker runs
   worker |-> "none",           \* backup_thread: none, started, calling, running, finished
   start_btn |-> "normal", stop_btn |-> "disabled",
   starts |-> 0,                \* clicks on Start
   events |-> <<>>,             \* callbacks queued with root.after, oldest first
   dialogs |-> <<>>,            \* message boxes shown, oldest first
   log_status_ran_on |-> {},    \* threads that have executed log_status
   stopped |-> {},              \* the Start clicks whose backup was running when Stop was clicked
   quit_by_main_at |-> "none",  \* where the worker was when the main thread called driver.quit()
   callback_error |-> FALSE,    \* a button callback ended with an exception
   threads |-> <<>>]            \* every thread start_backup started: started, running, finished

\* no interception in progress
NoNet ==
  [phase |-> "none"]

\* retry_failed_files was not called
NoRetry ==
  [files_to_retry |-> <<>>, files_by_folder |-> <<>>, at |-> 1, calls |-> <<>>,
   launched |-> 0, retries |-> 0]

Init ==
  /\ InitBot
  /\ downloads \in {<<>>, <<StaleDownload>>}
  /\ tree = <<>>
  /\ gui = NoGui /\ net = NoNet /\ retry = NoRetry /\ obs = NoObs

\* NeatBot._log: print, then the status callback if the bot was given one.  The
\* callback runs on the thread that called _log.
log(g, thread) ==
  IF g.status_callback = "none" THEN g
  ELSE [g EXCEPT !.log_status_ran_on = @ \cup {thread}]

\* the browser self.driver refers to has been quit: every call into the driver
\* raises from then on
DriverGone == driver # 0 /\ browsers[driver] = "quit"

\* ------------------------------------------------------------- run_backup
\* run_backup up to the call of setup_driver.  A further run is explored
\* after runs in which every document was exported (the re-run of a finished
\* backup).
StartRun ==
  /\ runNo < MaxRuns
  /\ IF gui.window
     THEN gui.worker = "calling" /\ pc \in {"idle", "done"}
     ELSE pc = "idle" \/ (pc = "done" /\ obs.cleanRuns = runNo)
  /\ gui' = IF gui.window THEN [gui EXCEPT !.worker = "running"] ELSE gui
  /\ runNo' = runNo + 1
  /\ failed_files' = <<>>
  /\ stats' = ZeroStats
  /\ pc' = "setup"
  /\ obs' = [obs EXCEPT !.exportCalls = <<>>, !.getFoldersCalled = FALSE,
                        !.item = [kind |-> "none"], !.processed = 0, !.clean = TRUE,
                        !.org = [called |-> FALSE], !.failedFolders = {}]
  /\ lg' = LoginLocals /\ ex' = ExportLocals /\ folders' = <<>> /\ fi' = 1
  /\ UNCHANGED <<driver, browsers, url, captchaShown, downloads, tree, net, retry>>

\* setup_driver: launches a browser, or raises into run_backup's except
SetupDriver ==
  /\ pc = "setup"
  /\ \E launched \in BOOLEAN :
       IF launched
       THEN /\ browsers' = Append(browsers, "running")
            /\ driver' = Len(browsers) + 1
            /\ pc' = "login"
            /\ obs' = obs
       ELSE /\ UNCHANGED <<browsers, driver>>
            /\ pc' = "finally"
            /\ obs' = [obs EXCEPT !.clean = FALSE]
  /\ UNCHANGED <<runNo, failed_files, stats, url, captchaShown, lg, folders, fi, ex,
                 downloads, tree, net, retry>>
  /\ gui' = log(gui, "worker")

\* ------------------------------------------------------------------ login
\* except Exception as e: ... return False
LoginExceptPropagates(l) == [l EXCEPT !.result = "raised"]

LoginExcept(l) == [l EXCEPT !.result = "false"]

\* driver.get, sleep, and the already-logged-in check
LoginNavigate ==
  /\ pc = "login"
  /\ \E raises \in BOOLEAN, u \in {"login", "dashboard"}, c \in BOOLEAN :
       /\ DriverGone => raises
       /\ IF raises
          THEN /\ lg' = LoginExcept(lg) /\ pc' = "login_return"
               /\ UNCHANGED <<url, captchaShown>>
          ELSE /\ url' = u
               /\ captchaShown' = (c /\ u = "login")
               /\ IF u = "dashboard"
                  THEN /\ lg' = [lg EXCEPT !.result = "true", !.sawDashboard = TRUE]
                       /\ pc' = "login_return"
                  ELSE /\ lg' = lg /\ pc' = "login_fields"
  /\ UNCHANGED <<runNo, driver, browsers, failed_files, stats, folders, fi, ex,
                 downloads, tree, obs, net, retry>>
  /\ gui' = log(gui, "worker")

\* wait for the username field, find the password field, send the keys
LoginFields ==
  /\ pc = "login_fields"
  /\ \E raises \in BOOLEAN :
       /\ DriverGone => raises
       /\ IF raises
          THEN lg' = LoginExcept(lg) /\ pc' = "login_return"
          ELSE lg' = lg /\ pc' = "login_captcha"
  /\ UNCHANGED <<runNo, driver, browsers, failed_files, stats, url, captchaShown,
                 folders, fi, ex, downloads, tree, obs, net, retry>>
  /\ gui' = log(gui, "worker")

\* the scan of captcha_selectors before submitting; a lookup that raises
\* counts as no indicator
LoginDetectCaptcha ==
  /\ pc = "login_captcha"
  /\ lg' = [lg EXCEPT !.captcha_detected = captchaShown /\ ~DriverGone, !.waited = 0]
  /\ pc' = IF captchaShown /\ ~DriverGone THEN "login_poll" ELSE "login_submit"
  /\ UNCHANGED <<runNo, driver, browsers, failed_files, stats, url, captchaShown,
                 folders, fi, ex, downloads, tree, obs, net, retry>>
  /\ gui' = IF captchaShown /\ ~DriverGone THEN log(gui, "worker") ELSE gui

\* while (time.time() - wait_start) < 60: skips the poll at the limit
PollWindowOpenInclusive(l) == l.waited <= CaptchaTimeout

PollWindowOpen(l) == l.waited < CaptchaTimeout

\* one evaluation of the while condition of the challenge wait and, if it
\* holds, one pass of the loop body
LoginPoll ==
  /\ pc = "login_poll"
  /\ IF ~PollWindowOpen(lg)
     THEN \* if not captcha_solved: return False
          /\ lg' = [lg EXCEPT !.result = "false", !.timedOut = TRUE]
          /\ pc' = "login_return"
     ELSE \E raises \in BOOLEAN, d \in PollSleep..(PollSleep + MaxPollJitter) :
            /\ DriverGone => raises
            /\ IF raises
               THEN /\ lg' = LoginExcept([lg EXCEPT !.polledAt = lg.waited, !.pollSaw = "raised"])
                    /\ pc' = "login_return"
               ELSE IF url = "dashboard" \/ ~captchaShown
               THEN /\ lg' = [lg EXCEPT !.captcha_solved = TRUE, !.polledAt = lg.waited,
                                        !.pollSaw = "clear"]
                    /\ pc' = "login_submit"
               ELSE /\ lg' = [lg EXCEPT !.waited = lg.waited + d, !.polledAt = lg.waited,
                                        !.pollSaw = "challenge"]
                    /\ pc' = "login_poll"
  /\ UNCHANGED <<runNo, driver, browsers, failed_files, stats, url, captchaShown,
                 folders, fi, ex, downloads, tree, obs, net, retry>>
  /\ gui' = IF pc' # "login_poll" THEN log(gui, "worker") ELSE gui

\* the human operator, or the site, acts on the login page while login runs
HumanActs ==
  /\ pc \in {"login_captcha", "login_poll", "login_submit"}
  /\ ~DriverGone
  /\ \/ captchaShown /\ captchaShown' = FALSE /\ url' = url
     \/ url = "login" /\ url' = "dashboard" /\ captchaShown' = FALSE
  /\ UNCHANGED <<pc, runNo, driver, browsers, failed_files, stats, lg, folders, fi, ex,
                 downloads, tree, obs, gui, net, retry>>

\* submit unless the dashboard is already shown, then wait for the dashboard
LoginSubmit ==
  /\ pc = "login_submit"
  /\ \E raises \in {"no", "url", "button", "wait"} :
       /\ DriverGone => raises = "url"
       /\ IF raises = "url"
          THEN lg' = LoginExcept(lg) /\ url' = url
          ELSE IF url = "dashboard"
          THEN lg' = [lg EXCEPT !.result = "true", !.sawDashboard = TRUE] /\ url' = url
          ELSE IF raises = "button"
          THEN lg' = LoginExcept(lg) /\ url' = url
          ELSE IF raises = "wait"
          THEN lg' = LoginExcept([lg EXCEPT !.submitClicked = TRUE]) /\ url' = url
          ELSE /\ lg' = [lg EXCEPT !.submitClicked = TRUE, !.result = "true",
                                   !.sawDashboard = TRUE]
               /\ url' = "dashboard"
  /\ pc' = "login_return"
  /\ captchaShown' = (captchaShown /\ url' = "login")
  /\ UNCHANGED <<runNo, driver, browsers, failed_files, stats, folders, fi, ex,
                 downloads, tree, obs, net, retry>>
  /\ gui' = log(gui, "worker")

\* a plausible slip: the result of login is not looked at
LoginReturnIgnored ==
  /\ pc = "login_return"
  /\ pc' = "get_folders"
  /\ lg' = [LoginLocals EXCEPT !.result = lg.result]
  /\ UNCHANGED <<runNo, driver, browsers, failed_files, stats, url, captchaShown,
                 folders, fi, ex, downloads, tree, obs, gui, net, retry>>

\* run_backup: if not self.login(username, password): return stats
LoginReturn ==
  /\ pc = "login_return"
  /\ pc' = IF lg.result = "true" THEN "get_folders" ELSE "finally"
  /\ obs' = IF lg.result = "true" THEN obs ELSE [obs EXCEPT !.clean = FALSE]
  /\ lg' = [LoginLocals EXCEPT !.result = lg.result]
  /\ UNCHANGED <<runNo, driver, browsers, failed_files, stats, url, captchaShown,
                 folders, fi, ex, downloads, tree, gui, net, retry>>

\* ------------------------------------------------------------ get_folders
\* get_folders: the cabinet is located and expanded and the sidebar elements
\* are read, or an exception yields the empty list
GetFolders ==
  /\ pc = "get_folders"
  /\ \E raises \in BOOLEAN, elems \in SidebarLists :
       LET found == get_folders(raises, elems)
       IN  /\ DriverGone => raises
           /\ folders' = found
           /\ stats' = [stats EXCEPT !.total_folders = Len(found)]
           /\ obs' = [obs EXCEPT !.getFoldersCalled = TRUE,
                                 !.clean = obs.clean /\ {found[i].id : i \in DOMAIN found} = FolderIds]
  /\ fi' = 1
  /\ pc' = "loop"
  /\ UNCHANGED <<runNo, driver, browsers, failed_files, url, captchaShown, lg, ex,
                 downloads, tree, net, retry>>
  /\ gui' = log(gui, "worker")

\* the head of "for folder_name, folder_selector in folders", and what
\* follows the loop: success, failed_file_details, the summary log
NextFolder ==
  /\ pc = "loop"
  /\ IF fi <= Len(folders)
     THEN /\ pc' = "open"
          /\ ex' = [ExportLocals EXCEPT !.folder_name = folders[fi].name,
                                        !.folder_id = folders[fi].id,
                                        !.folder_selector = folders[fi].selector]
          /\ obs' = [obs EXCEPT !.exportCalls = Append(obs.exportCalls, folders[fi].id),
                                !.processed = 0, !.item = [kind |-> "none"]]
          /\ stats' = stats
     ELSE /\ pc' = "finally"
          /\ stats' = [stats EXCEPT !.success = TRUE, !.failed_file_details = failed_files]
          /\ UNCHANGED <<ex, obs>>
  /\ UNCHANGED <<runNo, driver, browsers, failed_files, url, captchaShown, lg, folders,
                 fi, downloads, tree, net, retry>>
  /\ gui' = IF fi > Len(folders) THEN log(gui, "worker") ELSE gui

\* finally: if self.driver: self.driver.quit(); return stats
Finally ==
  /\ pc = "finally"
  /\ browsers' = IF driver # 0 THEN [browsers EXCEPT ![driver] = "quit"] ELSE browsers
  /\ pc' = "done"
  /\ obs' = IF obs.clean /\ stats.success
            THEN [obs EXCEPT !.cleanRuns = obs.cleanRuns + 1,
                             !.treeAfterClean = IF obs.cleanRuns = 0 THEN tree
                                                ELSE obs.treeAfterClean]
            ELSE obs
  /\ UNCHANGED <<runNo, driver, failed_files, stats, url, captchaShown, lg, folders, fi,
                 ex, downloads, tree, gui, net, retry>>

\* ------------------------------------------------------ export_folder_files
\* the name the browser gives a download: the document's name, made unique
\* in the download directory with " (n)"
RECURSIVE UniqueStem(_, _, _)
UniqueStem(title, dl, n) ==
  LET stem == IF n = 0 THEN title ELSE title \o " (" \o ToString(n) \o ")"
  IN  IF \E i \in DOMAIN dl : dl[i].stem = stem THEN UniqueStem(title, dl, n + 1) ELSE stem

Prefix(seq, k) == SubSeq(seq, 1, k)

\* except Exception as e (outer): the error is logged and the counts so far
\* are returned with the error list
FolderExceptPropagates(e) == [e EXCEPT !.folder_failed = TRUE, !.raised = TRUE]

\* the outer handler, had it appended its error_msg to errors
FolderExceptAppends(e) ==
  [e EXCEPT !.folder_failed = TRUE,
            !.errors = Append(@, [context |-> "Folder", error |-> "folder"])]

FolderExcept(e) == [e EXCEPT !.folder_failed = TRUE]

\* the handler of the per-item try: count, error string, failed-file record.
\* file_title is a local of the whole call: "" stands for not yet bound
ItemExcept(e, ff, exc) ==
  LET shown == IF e.file_title # "" THEN e.file_title ELSE "File " \o ToString(e.idx)
  IN  [ex |-> [e EXCEPT !.failed_count = @ + 1,
                        !.errors = Append(@, [context |-> shown, error |-> exc])],
       ff |-> Append(ff, [folder_name |-> e.folder_name,
                          folder_selector |-> e.folder_selector,
                          file_index |-> e.idx,
                          file_title |-> shown,
                          error |-> exc])]

\* what the environment does to one item: the step that raises, whether the
\* browser starts the download, what happens to the file, whether the final
\* unchecking click raises
ItemOutcomes ==
  { [stage |-> s, dl |-> "missing", fs |-> "ok", uncheck_raises |-> FALSE] :
       s \in {"title", "select"} }
  \cup { [stage |-> "download", dl |-> d, fs |-> f, uncheck_raises |-> u] :
       d \in {"started", "missing"},
       f \in {"ok", "vanished", "organize_none", "organize_raises"},
       u \in BOOLEAN }

\* steps 7 and 8 of the item: newest *.pdf of the download directory, the
\* wait for it, organize_file, the count, the unchecking click
AfterDownload(e, ff, dl, tr, out) ==
  LET safe_folder_name == sanitize_folder_name(e.folder_name)
      newest == Len(dl)
      quiet == [ex |-> e, ff |-> ff, downloads |-> dl, tree |-> tr,
                raised |-> FALSE, organized |-> FALSE, result |-> "None",
                source |-> NoFile]
      found ==
        IF dl = <<>> THEN quiet
        ELSE IF out.fs \in {"vanished", "organize_none"}
        THEN [quiet EXCEPT !.downloads = organize_file(tr, RemoveAt(dl, newest), 0, safe_folder_name).downloads]
        ELSE IF out.fs = "organize_raises"
        THEN LET h == ItemExcept(e, ff, "organize")
             IN  [quiet EXCEPT !.ex = h.ex, !.ff = h.ff, !.raised = TRUE]
        ELSE LET r == organize_file(tr, dl, newest, safe_folder_name)
             IN  [quiet EXCEPT !.ex = [e EXCEPT !.exported_count = @ + 1],
                               !.downloads = r.downloads, !.tree = r.tree,
                               !.organized = TRUE, !.result = r.result,
                               !.source = dl[newest]]
  IN  IF ~found.raised /\ out.uncheck_raises
      THEN LET h == ItemExcept(found.ex, found.ff, "uncheck")
           IN  [found EXCEPT !.ex = h.ex, !.ff = h.ff, !.raised = TRUE]
      ELSE found

\* the checkboxes of the page left selected by the item at e.idx: the
\* handler of the per-item try unchecks nothing, so an item that raises after
\* its checkbox was clicked (in the export steps, in organize_file, in the
\* unchecking click) leaves it selected
SelectedAfter(e, out, raised) ==
  IF out.stage = "title" THEN e.selected
  ELSE IF out.stage = "select" \/ raised THEN e.selected \cup {e.idx}
  ELSE e.selected

\* the body of "for idx, checkbox in enumerate(checkboxes, 1)" for the item
\* at e.idx (the same body serves the pages after the first)
ProcessItem(e, ff, dl, tr, out) ==
  LET cb == e.checkboxes[e.idx]
      titled == [e EXCEPT !.file_title = cb.title]
      started == IF out.dl = "started"
                 THEN Append(dl, [stem |-> UniqueStem(cb.title, dl, 0),
                                  doc |-> cb.doc, size |-> cb.size])
                 ELSE dl
  IN  IF out.stage = "title"
      THEN LET h == ItemExcept(e, ff, "row")
           IN  [ex |-> h.ex, ff |-> h.ff, downloads |-> dl, tree |-> tr,
                raised |-> TRUE, organized |-> FALSE, result |-> "None",
                source |-> NoFile]
      ELSE IF out.stage = "select"
      THEN LET h == ItemExcept(titled, ff, "export")
           IN  [ex |-> h.ex, ff |-> h.ff, downloads |-> dl, tree |-> tr,
                raised |-> TRUE, organized |-> FALSE, result |-> "None",
                source |-> NoFile]
      ELSE AfterDownload(titled, ff, started, tr, out)

\* lines 331-545: open the folder, read the expected total, load the checkboxes
ExportOpen ==
  /\ pc = "open"
  /\ \E raises \in BOOLEAN, readTotal \in BOOLEAN,
        k \in 0..Len(PageDocs(ex.folder_id, 1)) :
       /\ DriverGone => raises
       /\ IF raises
          THEN /\ ex' = FolderExcept(ex)
               /\ pc' = "export_return"
               /\ obs' = [obs EXCEPT !.clean = FALSE, !.failedFolders = @ \cup {fi}]
          ELSE /\ ex' = [ex EXCEPT
                    !.expected_total = IF readTotal THEN Len(RemoteDocs(ex.folder_id)) ELSE 0,
                    !.checkboxes = Prefix(PageDocs(ex.folder_id, 1), k),
                    !.idx = 1, !.selected = {}]
               /\ pc' = IF k = 0 THEN "pages" ELSE "item"
               /\ obs' = [obs EXCEPT !.clean = obs.clean /\ readTotal
                                               /\ k = Len(PageDocs(ex.folder_id, 1))]
  /\ UNCHANGED <<runNo, driver, browsers, failed_files, stats, url, captchaShown, lg,
                 folders, fi, downloads, tree, net, retry>>
  /\ gui' = log(gui, "worker")

\* one pass of the per-item loop
ExportItem ==
  /\ pc = "item"
  /\ \E out \in ItemOutcomes :
       LET r == ProcessItem(ex, failed_files, downloads, tree, out)
           cb == ex.checkboxes[ex.idx]
       IN  /\ DriverGone => out.stage = "title"
           /\ ex' = [r.ex EXCEPT !.idx = ex.idx + 1,
                                 !.selected = SelectedAfter(ex, out, r.raised)]
           /\ failed_files' = r.ff
           /\ downloads' = r.downloads
           /\ tree' = r.tree
           /\ pc' = IF ex.idx + 1 > Len(ex.checkboxes) THEN "pages" ELSE "item"
           /\ obs' = [obs EXCEPT
                 !.processed = @ + 1,
                 !.clean = @ /\ out.stage = "download" /\ out.dl = "started"
                             /\ out.fs = "ok" /\ ~out.uncheck_raises,
                 !.item = [kind |-> "item", title |-> cb.title, doc |-> cb.doc,
                           idx |-> ex.idx, raised |-> r.raised, stage |-> out.stage,
                           started |-> (out.stage = "download" /\ out.dl = "started"),
                           failedBefore |-> ex.failed_count,
                           exportedBefore |-> ex.exported_count,
                           errorsBefore |-> ex.errors,
                           ffBefore |-> failed_files,
                           selectedAtExport |-> IF out.stage = "download"
                                                THEN ex.selected \cup {ex.idx} ELSE {}],
                 !.org = IF r.organized
                         THEN [called |-> TRUE, before |-> tree,
                               folder |-> sanitize_folder_name(ex.folder_name),
                               source |-> r.source, result |-> r.result]
                         ELSE [called |-> FALSE]]
  /\ UNCHANGED <<runNo, driver, browsers, stats, url, captchaShown, lg, folders, fi, net, retry>>
  /\ gui' = log(gui, "worker")

\* the while loop after the first page: look for a next-page control while
\* fewer items were counted than the header announced
ExportPages ==
  /\ pc = "pages"
  /\ IF ex.expected_total # 0 /\ ex.exported_count + ex.failed_count < ex.expected_total
     THEN \E clicked \in BOOLEAN, raises \in BOOLEAN,
             k \in 0..Len(PageDocs(ex.folder_id, ex.page_number + 1)) :
            IF ~(clicked /\ ~DriverGone /\ HasNextPage(ex.folder_id, ex.page_number))
            THEN \* if not next_clicked: break, then return
                 /\ ex' = ex /\ pc' = "export_return"
                 /\ obs' = [obs EXCEPT !.item = [kind |-> "none"], !.org = [called |-> FALSE],
                                       !.clean = @ /\ ~HasNextPage(ex.folder_id, ex.page_number)]
            ELSE IF raises
            THEN /\ ex' = FolderExcept([ex EXCEPT !.page_number = @ + 1])
                 /\ pc' = "export_return"
                 /\ obs' = [obs EXCEPT !.item = [kind |-> "none"], !.org = [called |-> FALSE],
                                       !.clean = FALSE, !.failedFolders = @ \cup {fi}]
            ELSE /\ ex' = [ex EXCEPT
                      !.page_number = @ + 1,
                      !.checkboxes = Prefix(PageDocs(ex.folder_id, ex.page_number + 1), k),
                      !.idx = 1, !.selected = {}]
                 /\ pc' = IF k = 0 THEN "pages" ELSE "item"
                 /\ obs' = [obs EXCEPT !.item = [kind |-> "none"], !.org = [called |-> FALSE],
                        !.clean = @ /\ k = Len(PageDocs(ex.folder_id, ex.page_number + 1)),
                        !.pageStart = ex.exported_count + ex.failed_count]
     ELSE /\ ex' = ex /\ pc' = "export_return"
          /\ obs' = [obs EXCEPT !.item = [kind |-> "none"], !.org = [called |-> FALSE]]
  /\ UNCHANGED <<runNo, driver, browsers, failed_files, stats, url, captchaShown, lg,
                 folders, fi, downloads, tree, net, retry>>
  /\ gui' = IF ex.expected_total # 0 /\ ex.exported_count + ex.failed_count < ex.expected_total THEN log(gui, "worker") ELSE gui

\* run_backup takes the tuple export_folder_files returned into stats; an
\* exception leaving export_folder_files would end the loop in run_backup's
\* except
ExportReturn ==
  /\ pc = "export_return"
  /\ IF ex.raised
     THEN /\ pc' = "finally" /\ UNCHANGED <<stats, fi>>
     ELSE /\ stats' = [stats EXCEPT
                 !.successful_files = @ + ex.exported_count,
                 !.failed_files = @ + ex.failed_count,
                 !.total_files = @ + ex.exported_count + ex.failed_count,
                 !.errors = @ \o ex.errors]
          /\ fi' = fi + 1
          /\ pc' = "loop"
  /\ obs' = [obs EXCEPT !.item = [kind |-> "none"], !.org = [called |-> FALSE],
                        !.pageStart = 0]
  /\ UNCHANGED <<runNo, driver, browsers, failed_files, url, captchaShown, lg, folders,
                 ex, downloads, tree, gui, net, retry>>

\* ------------------------------------------------------------ specification
Next ==
  \/ StartRun \/ SetupDriver
  \/ LoginNavigate \/ LoginFields \/ LoginDetectCaptcha \/ LoginPoll \/ HumanActs
  \/ LoginSubmit \/ LoginReturn
  \/ GetFolders \/ NextFolder
  \/ ExportOpen \/ ExportItem \/ ExportPages \/ ExportReturn
  \/ Finally

Spec == Init /\ [][Next]_vars

\* -------------------------------------------------- the organizer on its own
\* organize_file called on destination folders that already hold files:
\* earlier exports of documents named A and A_1, under plain and numbered names
OrgFolder == sanitize_folder_name(FolderTitle("mycabinet-1"))
OrgNames == {PlainName("A"), NumberedName("A", 1), NumberedName("A", 2), PlainName("A_1")}
OrgSizes == {1, 2}
OrgTrees ==
  UNION { [ {<<OrgFolder, n>> : n \in names} ->
              { [doc |-> <<"earlier", z>>, size |-> z] : z \in OrgSizes } ] :
          names \in { ns \in SUBSET OrgNames : Cardinality(ns) <= MaxPreexisting } }
OrgDownloads ==
  { <<[stem |-> "A", doc |-> <<"new", 1>>, size |-> z]>> : z \in OrgSizes }
  \cup { <<[stem |-> "A", doc |-> <<"new", 1>>, size |-> z],
           [stem |-> "A_1", doc |-> <<"new", 2>>, size |-> 1]>> : z \in OrgSizes }

InitOrganize ==
  /\ InitBot
  /\ tree \in OrgTrees
  /\ downloads \in OrgDownloads
  /\ gui = NoGui /\ net = NoNet /\ retry = NoRetry /\ obs = NoObs

\* one call organize_file(source_path, folder_name, backup_root); i = 0 is a
\* source path that does not exist
OrganizeCall ==
  /\ pc = "idle"
  /\ \E i \in 0..Len(downloads) :
       LET r == organize_file(tree, downloads, i, OrgFolder)
       IN  /\ tree' = r.tree
           /\ downloads' = r.downloads
           /\ obs' = [obs EXCEPT !.org = [called |-> TRUE, before |-> tree,
                                          folder |-> OrgFolder,
                                          source |-> IF i = 0 THEN NoFile ELSE downloads[i],
                                          result |-> r.result]]
  /\ UNCHANGED <<pc, runNo, driver, browsers, failed_files, stats, url, captchaShown,
                 lg, folders, fi, ex, gui, net, retry>>

NextOrganize == OrganizeCall

SpecOrganize == InitOrganize /\ [][NextOrganize]_vars

\* ------------------------------------------------------------------ the GUI
\* clicks on Start explored
MaxStarts == 1

\* a plausible slip: cleanup without the test of self.driver
cleanupUnguarded(d, bs) ==
  IF d = 0
  THEN [driver |-> d, browsers |-> bs, raised |-> TRUE, logged |-> FALSE]
  ELSE [driver |-> d, browsers |-> [bs EXCEPT ![d] = "quit"], raised |-> FALSE,
        logged |-> TRUE]

\* NeatBot.cleanup on a bot whose self.driver is d: if self.driver:
\* self.driver.quit(); self._log("Browser closed").  self.driver is not reset.
\* quit() of webdriver.Chrome ends the session and the driver service and
\* swallows the error of a session that is already gone.
cleanup(d, bs) ==
  IF d = 0
  THEN [driver |-> d, browsers |-> bs, raised |-> FALSE, logged |-> FALSE]
  ELSE [driver |-> d, browsers |-> [bs EXCEPT ![d] = "quit"], raised |-> FALSE,
        logged |-> TRUE]

\* NeatBackupGUI.__init__: no bot, no thread; load_saved_credentials logs on
\* the main thread when credentials were saved earlier
InitGui ==
  /\ InitBot
  /\ downloads = <<>> /\ tree = <<>>
  /\ \E loaded \in BOOLEAN :
       gui = [NoGui EXCEPT !.window = TRUE,
                           !.log_status_ran_on = IF loaded THEN {"main"} ELSE {}]
  /\ net = NoNet /\ retry = NoRetry /\ obs = NoObs

\* start_backup, the command of the Start button.  One worker is followed at
\* a time: a click while an earlier worker is still running is not explored.
StartBackup ==
  /\ gui.window /\ gui.start_btn = "normal"
  /\ gui.starts < MaxStarts
  /\ gui.worker \in {"none", "finished"}
  /\ \E entered \in BOOLEAN, save_creds \in BOOLEAN :
       IF ~entered
       THEN \* messagebox.showerror("Error", ...); return
            gui' = [gui EXCEPT !.starts = @ + 1,
                               !.dialogs = Append(@, [box |-> "showerror", start |-> 0])]
       ELSE gui' = [gui EXCEPT !.starts = @ + 1,
                               !.log_status_ran_on = IF save_creds THEN @ \cup {"main"} ELSE @,
                               !.start_btn = "disabled", !.stop_btn = "normal",
                               !.worker = "started"]
  /\ UNCHANGED <<pc, runNo, driver, browsers, failed_files, stats, url, captchaShown,
                 lg, folders, fi, ex, downloads, tree, net, retry, obs>>

\* run_backup_thread up to the call of run_backup:
\* self.bot = NeatBot(self.config, status_callback=self.log_status)
WorkerBegin ==
  /\ gui.worker = "started"
  /\ gui' = [gui EXCEPT !.bot = @ + 1, !.status_callback = "log_status",
                        !.worker = "calling"]
  /\ driver' = 0
  /\ failed_files' = <<>>
  /\ UNCHANGED <<pc, runNo, browsers, stats, url, captchaShown, lg, folders, fi, ex,
                 downloads, tree, net, retry, obs>>

\* run_backup_thread after run_backup returned:
\* self.root.after(0, lambda: self.backup_complete(stats))
WorkerDeliver ==
  /\ gui.worker = "running" /\ pc = "done"
  /\ gui' = [gui EXCEPT !.worker = "finished",
                        !.events = Append(@, [fn |-> "backup_complete", start |-> gui.starts,
                                              success |-> stats.success])]
  /\ UNCHANGED <<pc, runNo, driver, browsers, failed_files, stats, url, captchaShown,
                 lg, folders, fi, ex, downloads, tree, net, retry, obs>>

\* the main loop runs the oldest queued callback: backup_complete(stats)
BackupComplete ==
  /\ gui.events # <<>>
  /\ LET e == Head(gui.events)
     IN  gui' = [gui EXCEPT !.events = Tail(@),
                            !.start_btn = "normal", !.stop_btn = "disabled",
                            !.dialogs = Append(@, [box |-> IF e.success THEN "showinfo"
                                                           ELSE "showerror",
                                                   start |-> e.start])]
  /\ UNCHANGED <<pc, runNo, driver, browsers, failed_files, stats, url, captchaShown,
                 lg, folders, fi, ex, downloads, tree, net, retry, obs>>

\* stop_backup, the command of the Stop button, run by the main thread:
\* if self.bot: self.bot.cleanup(); then the buttons, the progress text and
\* log_status("Backup stopped by user").  The worker is not told anything.
StopBackup ==
  /\ gui.window /\ gui.stop_btn = "normal"
  /\ LET c == IF gui.bot # 0 THEN cleanup(driver, browsers)
              ELSE [driver |-> driver, browsers |-> browsers, raised |-> FALSE,
                    logged |-> FALSE]
         at == IF gui.worker = "running" THEN pc ELSE "finished"
         alive == gui.worker \in {"started", "calling"}
                  \/ (gui.worker = "running" /\ pc # "done")
     IN  /\ browsers' = c.browsers
         /\ gui' = IF c.raised
                   THEN [gui EXCEPT !.callback_error = TRUE]
                   ELSE [gui EXCEPT
                           !.start_btn = "normal", !.stop_btn = "disabled",
                           !.log_status_ran_on = @ \cup {"main"},
                           !.stopped = IF alive THEN @ \cup {gui.starts} ELSE @,
                           !.quit_by_main_at = IF gui.bot # 0 /\ driver # 0 THEN at ELSE @]
  /\ UNCHANGED <<pc, runNo, driver, failed_files, stats, url, captchaShown,
                 lg, folders, fi, ex, downloads, tree, net, retry, obs>>

NextGui ==
  \/ StartBackup \/ StopBackup \/ BackupComplete
  \/ WorkerBegin \/ WorkerDeliver
  \/ StartRun \/ SetupDriver
  \/ LoginNavigate \/ LoginFields \/ LoginDetectCaptcha \/ LoginPoll \/ HumanActs
  \/ LoginSubmit \/ LoginReturn
  \/ GetFolders \/ NextFolder
  \/ ExportOpen \/ ExportItem \/ ExportPages \/ ExportReturn
  \/ Finally

SpecGui == InitGui /\ [][NextGui]_vars


\* ------------------------------------------------------ get_folders on its own
\* elements the sidebar query returns in SpecFolders
MaxSidebar == 3

RECURSIVE SidebarListsOf(_)
\* every list of at most n sidebar elements
SidebarListsOf(n) ==
  IF n = 0 THEN {<<>>}
  ELSE LET shorter == SidebarListsOf(n - 1)
       IN  shorter \cup { Append(l, e) : l \in {x \in shorter : Len(x) = n - 1},
                                         e \in SidebarElems }

\* the bot is logged in; the sidebar holds the elements obs.call.elems, or the
\* cabinet or the sidebar query raises
InitFolders ==
  /\ InitBot
  /\ downloads = <<>> /\ tree = <<>>
  /\ gui = NoGui /\ net = NoNet /\ retry = NoRetry
  /\ \E raises \in BOOLEAN, elems \in SidebarListsOf(MaxSidebar) :
       obs = [NoObs EXCEPT !.call = [fn |-> "get_folders", raises |-> raises,
                                     elems |-> elems, returned |-> FALSE]]

\* one call self.get_folders()
GetFoldersCall ==
  /\ obs.call.fn = "get_folders" /\ ~obs.call.returned
  /\ folders' = get_folders(obs.call.raises, obs.call.elems)
  /\ obs' = [obs EXCEPT !.call.returned = TRUE]
  /\ UNCHANGED <<pc, runNo, driver, browsers, failed_files, stats, url, captchaShown,
                 lg, fi, ex, downloads, tree, gui, net, retry>>

NextFolders == GetFoldersCall

SpecFolders == InitFolders /\ [][NextFolders]_vars


\* ------------------------------------------- sanitize_folder_name on its own
\* length of the folder names of SpecSanitize
MaxNameLen == 4

\* the characters folder names are built from: a letter, a blank, the
\* hierarchy slash and every unsafe character
NameChars == {"a", " ", "/"} \cup UnsafeChars

RECURSIVE NamesUpTo(_)
\* every name of at most n characters
NamesUpTo(n) ==
  IF n = 0 THEN {<<>>}
  ELSE LET shorter == NamesUpTo(n - 1)
       IN  shorter \cup { Append(s, c) : s \in {x \in shorter : Len(x) = n - 1},
                                         c \in NameChars }

\* "2013 year TAX/Receipts: Q1"
ExampleName ==
  <<"2", "0", "1", "3", " ", "y", "e", "a", "r", " ", "T", "A", "X", "/",
    "R", "e", "c", "e", "i", "p", "t", "s", ":", " ", "Q", "1">>

InitSanitize ==
  /\ InitBot
  /\ downloads = <<>> /\ tree = <<>>
  /\ gui = NoGui /\ net = NoNet /\ retry = NoRetry
  /\ \E name \in NamesUpTo(MaxNameLen) \cup {ExampleName} :
       obs = [NoObs EXCEPT !.call = [fn |-> "sanitize_folder_name", name |-> name,
                                     returned |-> FALSE, result |-> <<>>]]

\* one call sanitize_folder_name(name)
SanitizeCall ==
  /\ obs.call.fn = "sanitize_folder_name" /\ ~obs.call.returned
  /\ obs' = [obs EXCEPT !.call.returned = TRUE,
                        !.call.result = sanitize_folder_name(obs.call.name)]
  /\ UNCHANGED <<pc, runNo, driver, browsers, failed_files, stats, url, captchaShown,
                 lg, folders, fi, ex, downloads, tree, gui, net, retry>>

NextSanitize == SanitizeCall

SpecSanitize == InitSanitize /\ [][NextSanitize]_vars


\* ------------------------------------------------- Config.validate on its own
\* how far beyond the ends of its range a numeric setting is drawn
MaxOutside == 1

\* numeric_settings of validate, in the order of the dict
NumericSettings ==
  << [key |-> "wait_timeout", min_val |-> 1, max_val |-> 60],
     [key |-> "download_timeout", min_val |-> 5, max_val |-> 300],
     [key |-> "delay_between_files", min_val |-> 0, max_val |-> 10] >>

\* a stored value: None (or the key is missing), an integer, or a value that
\* is neither int nor float (a string read from config.json)
NoValue == [kind |-> "none", v |-> 0]
TextValue == [kind |-> "str", v |-> 0]
IntValue(n) == [kind |-> "int", v |-> n]

\* the values a numeric setting is drawn from: around both ends of its range
ValuesAround(min_val, max_val) ==
  {NoValue, TextValue}
  \cup { IntValue(n) : n \in (min_val - MaxOutside)..(min_val + MaxOutside) }
  \cup { IntValue(n) : n \in (max_val - MaxOutside)..(max_val + MaxOutside) }

\* what the check of download_dir meets: the setting is empty, the directory
\* is there (or was created) and is writable, it is not writable, or Path /
\* mkdir raise
DirStates == {"unset", "writable", "not_writable", "raises"}
\* chrome_headless: None, a bool, or something else
HeadlessValues == {"none", "bool", "other"}

SettingsSpace ==
  [download_dir : DirStates, chrome_headless : HeadlessValues,
   wait_timeout : ValuesAround(1, 60) \cup {IntValue(120)},
   download_timeout : ValuesAround(5, 300),
   delay_between_files : ValuesAround(0, 10)]

\* a plausible slip: the ends of the range are rejected
OutOfRangeExclusive(value, min_val, max_val) == value <= min_val \/ value >= max_val

\* elif value < min_val or value > max_val
OutOfRange(value, min_val, max_val) == value < min_val \/ value > max_val

\* the errors validate appends for download_dir
DirErrors(dir) ==
  IF dir = "unset" THEN << [key |-> "download_dir", what |-> "is not set"] >>
  ELSE IF dir = "raises" THEN << [key |-> "download_dir", what |-> "invalid"] >>
  ELSE IF dir = "not_writable" THEN << [key |-> "download_dir", what |-> "is not writable"] >>
  ELSE <<>>

\* the error validate appends for chrome_headless
HeadlessErrors(h) ==
  IF h = "other" THEN << [key |-> "chrome_headless", what |-> "must be boolean"] >> ELSE <<>>

\* one pass of "for key, (min_val, max_val) in numeric_settings.items()"
NumericErrors(setting, value) ==
  IF value.kind = "none" THEN <<>>
  ELSE IF value.kind # "int"
  THEN << [key |-> setting.key, what |-> "must be numeric"] >>
  ELSE IF OutOfRange(value.v, setting.min_val, setting.max_val)
  THEN << [key |-> setting.key, what |-> "must be between", min_val |-> setting.min_val,
           max_val |-> setting.max_val, got |-> value.v] >>
  ELSE <<>>

\* Config.validate on the settings: (len(errors) == 0, errors)
validate(settings) ==
  LET errors == DirErrors(settings.download_dir)
                \o HeadlessErrors(settings.chrome_headless)
                \o NumericErrors(NumericSettings[1], settings.wait_timeout)
                \o NumericErrors(NumericSettings[2], settings.download_timeout)
                \o NumericErrors(NumericSettings[3], settings.delay_between_files)
  IN  [is_valid |-> Len(errors) = 0, errors |-> errors]

InitValidate ==
  /\ InitBot
  /\ downloads = <<>> /\ tree = <<>>
  /\ gui = NoGui /\ net = NoNet /\ retry = NoRetry
  /\ \E settings \in SettingsSpace :
       obs = [NoObs EXCEPT !.call = [fn |-> "validate", settings |-> settings,
                                     returned |-> FALSE,
                                     result |-> [is_valid |-> FALSE, errors |-> <<>>]]]

\* one call config.validate()
ValidateCall ==
  /\ obs.call.fn = "validate" /\ ~obs.call.returned
  /\ obs' = [obs EXCEPT !.call.returned = TRUE,
                        !.call.result = validate(obs.call.settings)]
  /\ UNCHANGED <<pc, runNo, driver, browsers, failed_files, stats, url, captchaShown,
                 lg, folders, fi, ex, downloads, tree, gui, net, retry>>

NextValidate == ValidateCall

SpecValidate == InitValidate /\ [][NextValidate]_vars


\* ------------------------------------------------- the interception variant
\* export_folder_files of src/_archive/neat_bot_old.py and of
\* src/_archive/export_folder_files_new.py up to the listing of the folder,
\* and _intercept_api_response.  The part that exports the listed items is
\* not followed here.
\* responses the browser receives in one behaviour
MaxResponses == 2
\* entities one listing response carries
MaxEntities == 2

\* time_module.sleep(1) at the end of each pass of the interception loop
InterceptSleep == 1

Variants == {"neat_bot_old", "export_folder_files_new"}
\* the max_wait each variant passes to _intercept_api_response
max_wait(variant) == IF variant = "neat_bot_old" THEN 5 ELSE 10

\* the folders the run exports, in order
NetFolders == <<"mycabinet-1", "mycabinet-2">>

\* what a Network.responseReceived entry of the performance log can be: a
\* listing (status 200 on /api/v5/entities) with n entities, a listing whose
\* body cannot be fetched or has no "entities" key, a failed request, or a
\* response of another URL
ResponseShapes ==
  { [url |-> "entities", status |-> 200, body |-> "entities", n |-> n] : n \in 0..MaxEntities }
  \cup { [url |-> "entities", status |-> 200, body |-> b, n |-> 0] :
           b \in {"unavailable", "no_entities_key"} }
  \cup { [url |-> "entities", status |-> 500, body |-> "entities", n |-> 0],
         [url |-> "other", status |-> 200, body |-> "entities", n |-> 0] }

\* the empty list
NoEntities == [id |-> 0, cause |-> 0, n |-> 0]
NoReturn == [kind |-> "none", exported_count |-> 0, failed_count |-> 0, errors |-> <<>>]

RECURSIVE Examine(_, _, _)
\* "for log in logs" of one pass: a listing response whose request id was not
\* checked yet has its body fetched and is collected when it has entities
Examine(logs, checked, all) ==
  IF logs = <<>> THEN [checked_request_ids |-> checked, all_responses |-> all]
  ELSE LET e == Head(logs)
       IN  IF ~(e.url = "entities" /\ e.status = 200) \/ e.id \in checked
           THEN Examine(Tail(logs), checked, all)
           ELSE IF e.body = "entities" /\ e.n > 0
           THEN Examine(Tail(logs), checked \cup {e.id},
                        Append(all, [id |-> e.id, cause |-> e.cause, n |-> e.n]))
           ELSE Examine(Tail(logs), checked \cup {e.id}, all)

\* all_responses[0] in place of the largest
FirstResponse(all) == all[1]

\* max(all_responses, key=len): the first response of the greatest length
Largest(all) ==
  all[CHOOSE i \in DOMAIN all :
        /\ \A j \in DOMAIN all : all[j].n <= all[i].n
        /\ \A j \in 1..(i - 1) : all[j].n < all[i].n]

\* the browser is logged in and shows the dashboard; the performance log is
\* on since setup_driver
InitIntercept ==
  /\ InitBot
  /\ downloads = <<>> /\ tree = <<>>
  /\ gui = NoGui /\ retry = NoRetry /\ obs = NoObs
  /\ \E v \in Variants :
       net = [phase |-> "open", variant |-> v, fi |-> 1, opened |-> 0,
              log |-> <<>>, issued |-> 0, elapsed |-> 0,
              checked_request_ids |-> {}, all_responses |-> <<>>, seen |-> <<>>,
              entities |-> NoEntities, returned |-> NoReturn]

\* the page receives a response: an entry is added to the performance log.
\* cause is the folder that was opened last (0: none yet, the dashboard).
\* The log may also report once more a response it has reported since the
\* folder was opened, under the same request id.
NetworkResponse ==
  /\ net.phase # "none"
  /\ net.issued < MaxResponses
  /\ \/ \E shape \in ResponseShapes :
          net' = [net EXCEPT
                    !.issued = @ + 1,
                    !.log = Append(@, [id |-> net.issued + 1, cause |-> net.opened,
                                       url |-> shape.url, status |-> shape.status,
                                       body |-> shape.body, n |-> shape.n])]
     \/ \E k \in DOMAIN (net.seen \o net.log) :
          net' = [net EXCEPT !.issued = @ + 1,
                             !.log = Append(@, (net.seen \o net.log)[k])]
  /\ UNCHANGED <<pc, runNo, driver, browsers, failed_files, stats, url, captchaShown,
                 lg, folders, fi, ex, downloads, tree, gui, retry, obs>>

\* export_folder_files up to the call of _intercept_api_response: find the
\* folder element, scroll to it, (export_folder_files_new: read the
\* performance log to empty it,) click it
OpenFolder ==
  /\ net.phase = "open"
  /\ \E raises \in BOOLEAN :
       IF raises
       THEN net' = [net EXCEPT !.phase = "returned",
                               !.returned = [NoReturn EXCEPT !.kind = "raised"]]
       ELSE net' = [net EXCEPT
                      !.phase = "intercept", !.opened = net.fi,
                      !.log = IF net.variant = "export_folder_files_new" THEN <<>> ELSE @,
                      !.elapsed = 0, !.checked_request_ids = {}, !.all_responses = <<>>,
                      !.seen = <<>>, !.entities = NoEntities, !.returned = NoReturn]
  /\ UNCHANGED <<pc, runNo, driver, browsers, failed_files, stats, url, captchaShown,
                 lg, folders, fi, ex, downloads, tree, gui, retry, obs>>

\* one evaluation of the while condition of _intercept_api_response and, if
\* it holds, one pass: get_log('performance') hands over the entries logged
\* since the last call, or raises; after the loop the largest response is
\* returned, or the empty list
InterceptPoll ==
  /\ net.phase = "intercept"
  /\ IF net.elapsed < max_wait(net.variant)
     THEN \E raises \in BOOLEAN, d \in InterceptSleep..(InterceptSleep + MaxPollJitter) :
            IF raises
            THEN net' = [net EXCEPT !.elapsed = @ + d]
            ELSE LET r == Examine(net.log, net.checked_request_ids, net.all_responses)
                 IN  net' = [net EXCEPT !.log = <<>>, !.seen = @ \o net.log,
                                        !.checked_request_ids = r.checked_request_ids,
                                        !.all_responses = r.all_responses,
                                        !.elapsed = @ + d]
     ELSE net' = [net EXCEPT !.phase = "intercepted",
                             !.entities = IF net.all_responses # <<>>
                                          THEN Largest(net.all_responses) ELSE NoEntities]
  /\ UNCHANGED <<pc, runNo, driver, browsers, failed_files, stats, url, captchaShown,
                 lg, folders, fi, ex, downloads, tree, gui, retry, obs>>

\* export_folder_files without the "if not entities" return
AfterInterceptUnchecked ==
  /\ net.phase = "intercepted"
  /\ net' = [net EXCEPT !.phase = "listed"]
  /\ UNCHANGED <<pc, runNo, driver, browsers, failed_files, stats, url, captchaShown,
                 lg, folders, fi, ex, downloads, tree, gui, retry, obs>>

\* export_folder_files after the helper returned: if not entities: return
\* (0, 0, ["API interception failed"])
AfterIntercept ==
  /\ net.phase = "intercepted"
  /\ net' = IF net.entities.n = 0
            THEN [net EXCEPT !.phase = "returned",
                             !.returned = [NoReturn EXCEPT
                                             !.kind = "failed",
                                             !.errors = <<"API interception failed">>]]
            ELSE [net EXCEPT !.phase = "listed"]
  /\ UNCHANGED <<pc, runNo, driver, browsers, failed_files, stats, url, captchaShown,
                 lg, folders, fi, ex, downloads, tree, gui, retry, obs>>

\* the items of the listing are exported and export_folder_files returns
ProcessListing ==
  /\ net.phase = "listed"
  /\ net' = [net EXCEPT !.phase = "returned",
                        !.returned = [NoReturn EXCEPT !.kind = "processed"]]
  /\ UNCHANGED <<pc, runNo, driver, browsers, failed_files, stats, url, captchaShown,
                 lg, folders, fi, ex, downloads, tree, gui, retry, obs>>

\* run_backup goes on to the next folder
NextFolderNet ==
  /\ net.phase = "returned"
  /\ net.fi < Len(NetFolders)
  /\ net' = [net EXCEPT !.phase = "open", !.fi = @ + 1]
  /\ UNCHANGED <<pc, runNo, driver, browsers, failed_files, stats, url, captchaShown,
                 lg, folders, fi, ex, downloads, tree, gui, retry, obs>>

NextIntercept ==
  \/ NetworkResponse \/ OpenFolder \/ InterceptPoll \/ AfterIntercept
  \/ ProcessListing \/ NextFolderNet

SpecIntercept == InitIntercept /\ [][NextIntercept]_vars

\* ----------------------------------------- the checkbox-loading scroll loop
\* export_folder_files of src/neat_bot.py from "Scrolling to load all file
\* checkboxes..." to the final count of the checkboxes.
\* checkboxes the page can have rendered at one poll
MaxRendered == 2

max_scroll_attempts == 20
\* "if no_change_count >= 3"
no_change_limit == 3
\* polls remembered for stating properties, the newest last
RecentKept == 4

\* the locals of the loop; recent starts with the initial
\* last_checkbox_count, which the first poll is compared with
ScrollLocals ==
  [expected_total |-> 0, last_checkbox_count |-> 0, scroll_attempts |-> 0,
   no_change_count |-> 0, current_count |-> 0, total_files |-> 0,
   exit |-> "none", polls |-> 0, recent |-> <<0>>]

LastOnes(seq, k) == IF Len(seq) <= k THEN seq ELSE SubSeq(seq, Len(seq) - k + 1, Len(seq))

\* "while scroll_attempts <= max_scroll_attempts"
KeepsScrollingInclusive(e) == e.scroll_attempts <= max_scroll_attempts

\* "while scroll_attempts < max_scroll_attempts"
KeepsScrolling(e) == e.scroll_attempts < max_scroll_attempts

\* the folder is open; expected_total is the number the header announced, 0
\* if it could not be read
InitScroll ==
  /\ pc = "scroll" /\ runNo = 1 /\ driver = 1 /\ browsers = <<"running">>
  /\ failed_files = <<>> /\ stats = ZeroStats
  /\ url = "dashboard" /\ captchaShown = FALSE /\ lg = LoginLocals
  /\ folders = <<>> /\ fi = 1
  /\ \E t \in 0..(MaxRendered + 1) : ex = [ScrollLocals EXCEPT !.expected_total = t]
  /\ downloads = <<>> /\ tree = <<>>
  /\ gui = NoGui /\ net = NoNet /\ retry = NoRetry /\ obs = NoObs

\* one evaluation of the while condition and, if it holds, one pass of the
\* loop: count the rendered checkboxes, leave the loop if the count reached
\* the expected total or did not change for the third time in a row,
\* otherwise scroll.  find_elements and window.scrollBy raise into the outer
\* handler of export_folder_files; the other scrolls are wrapped in "except:
\* pass"
ScrollPass ==
  /\ pc = "scroll"
  /\ IF ~KeepsScrolling(ex)
     THEN ex' = [ex EXCEPT !.exit = "attempts"] /\ pc' = "scrolled"
     ELSE \E current_count \in 0..MaxRendered, raises \in {"none", "count", "scroll"} :
            IF raises = "count"
            THEN ex' = [ex EXCEPT !.exit = "raised"] /\ pc' = "scroll_raised"
            ELSE LET polled == [ex EXCEPT !.current_count = current_count,
                                          !.polls = @ + 1,
                                          !.recent = LastOnes(Append(@, current_count), RecentKept)]
                     same == current_count = ex.last_checkbox_count
                     counted == [polled EXCEPT !.no_change_count = IF same THEN @ + 1 ELSE 0]
                 IN  IF ex.expected_total # 0 /\ current_count >= ex.expected_total
                     THEN ex' = [polled EXCEPT !.exit = "reached"] /\ pc' = "scrolled"
                     ELSE IF same /\ counted.no_change_count >= no_change_limit
                     THEN ex' = [counted EXCEPT !.exit = "stagnant"] /\ pc' = "scrolled"
                     ELSE IF raises = "scroll"
                     THEN ex' = [counted EXCEPT !.exit = "raised"] /\ pc' = "scroll_raised"
                     ELSE /\ ex' = [counted EXCEPT !.last_checkbox_count = current_count,
                                                   !.scroll_attempts = @ + 1]
                          /\ pc' = "scroll"
  /\ UNCHANGED <<runNo, driver, browsers, failed_files, stats, url, captchaShown, lg,
                 folders, fi, downloads, tree, gui, net, retry, obs>>

\* "Get final checkbox count"
ScrollCount ==
  /\ pc = "scrolled"
  /\ \E total_files \in 0..MaxRendered, raises \in BOOLEAN :
       IF raises
       THEN ex' = ex /\ pc' = "scroll_raised"
       ELSE ex' = [ex EXCEPT !.total_files = total_files] /\ pc' = "counted"
  /\ UNCHANGED <<runNo, driver, browsers, failed_files, stats, url, captchaShown, lg,
                 folders, fi, downloads, tree, gui, net, retry, obs>>

NextScroll == ScrollPass \/ ScrollCount

SpecScroll == InitScroll /\ [][NextScroll]_vars

\* the worker thread keeps running: sleeps and driver calls return
SpecScrollLive == SpecScroll /\ WF_vars(NextScroll)

\* ------------------------------------------------------ retry_failed_files
\* retry_failed_files of src/neat_bot.py, called on a bot whose run_backup has
\* returned.  login and export_folder_files are taken by what they return
\* and record; their steps are followed under Spec.
\* records in self.failed_files when the first retry is called
MaxFailed == 3
\* calls of retry_failed_files
MaxRetries == 2

\* a record as the per-item handler of export_folder_files appends it
FailedFile(id) ==
  [folder_name |-> FolderTitle(id), folder_selector |-> Selector(id),
   file_index |-> 1, file_title |-> "A", error |-> "row"]

RECURSIVE FailedListsOf(_)
\* the lists of at most n records
FailedListsOf(n) ==
  IF n = 0 THEN {<<>>}
  ELSE LET shorter == FailedListsOf(n - 1)
       IN  shorter \cup {Append(l, FailedFile(id)) : l \in shorter, id \in FolderIds}

folder_key(file_info) ==
  [folder_name |-> file_info.folder_name, folder_selector |-> file_info.folder_selector]

RECURSIVE GroupKeysNoSeen(_, _)
\* one entry per record in place of one per folder
GroupKeysNoSeen(files, keys) ==
  IF files = <<>> THEN keys
  ELSE GroupKeysNoSeen(Tail(files), Append(keys, folder_key(Head(files))))

RECURSIVE GroupKeys(_, _)
\* the keys of files_by_folder, in the order the dict received them
GroupKeys(files, keys) ==
  IF files = <<>> THEN keys
  ELSE LET folder_key_ == folder_key(Head(files))
       IN  IF \E i \in DOMAIN keys : keys[i] = folder_key_
           THEN GroupKeys(Tail(files), keys)
           ELSE GroupKeys(Tail(files), Append(keys, folder_key_))

\* what one call of export_folder_files returns and appends to
\* self.failed_files: items exported, items failed with their records
ExportSummaries == {[success |-> s, fail |-> f] : s \in 0..1, f \in 0..1}

\* run_backup has returned: its browser was quit, self.failed_files holds
\* the records of the run
InitRetry ==
  /\ pc = "idle" /\ runNo = 1 /\ driver = 1 /\ browsers = <<"quit">>
  /\ failed_files \in FailedListsOf(MaxFailed) /\ stats = ZeroStats
  /\ url = "login" /\ captchaShown = FALSE /\ lg = LoginLocals
  /\ folders = <<>> /\ fi = 1 /\ ex = ExportLocals
  /\ downloads = <<>> /\ tree = <<>>
  /\ gui = NoGui /\ net = NoNet /\ retry = NoRetry /\ obs = NoObs

\* retry_failed_files up to the try: the early return on an empty list, or
\* stats, the copy of the list and its clearing
RetryStart ==
  /\ pc \in {"idle", "retry_returned"}
  /\ retry.retries < MaxRetries
  /\ IF failed_files = <<>>
     THEN /\ stats' = [ZeroStats EXCEPT !.success = TRUE]
          /\ retry' = [NoRetry EXCEPT !.retries = retry.retries + 1]
          /\ pc' = "retry_returned"
          /\ UNCHANGED failed_files
     ELSE /\ stats' = [ZeroStats EXCEPT !.total_files = Len(failed_files)]
          /\ retry' = [NoRetry EXCEPT !.retries = retry.retries + 1,
                                      !.files_to_retry = failed_files]
          /\ failed_files' = <<>>
          /\ pc' = "retry_setup"
  /\ UNCHANGED <<runNo, driver, browsers, url, captchaShown, lg, folders, fi, ex,
                 downloads, tree, gui, net, obs>>

\* self.setup_driver(): a browser is launched, or the call raises into the
\* except of retry_failed_files
RetrySetupDriver ==
  /\ pc = "retry_setup"
  /\ \E launched \in BOOLEAN :
       IF launched
       THEN /\ browsers' = Append(browsers, "running")
            /\ driver' = Len(browsers) + 1
            /\ retry' = [retry EXCEPT !.launched = @ + 1]
            /\ pc' = "retry_login"
            /\ stats' = stats
       ELSE /\ UNCHANGED <<browsers, driver, retry>>
            /\ stats' = [stats EXCEPT !.errors = Append(@, "exception")]
            /\ pc' = "retry_finally"
  /\ UNCHANGED <<runNo, failed_files, url, captchaShown, lg, folders, fi, ex,
                 downloads, tree, gui, net, obs>>

\* if not self.login(...): "Login failed" and return; otherwise the failed
\* files are grouped by (folder_name, folder_selector)
RetryLogin ==
  /\ pc = "retry_login"
  /\ \E logged_in \in BOOLEAN :
       IF logged_in
       THEN /\ retry' = [retry EXCEPT !.files_by_folder = GroupKeys(retry.files_to_retry, <<>>),
                                      !.at = 1]
            /\ stats' = stats
            /\ pc' = "retry_loop"
       ELSE /\ stats' = [stats EXCEPT !.errors = Append(@, "Login failed")]
            /\ retry' = retry
            /\ pc' = "retry_finally"
  /\ UNCHANGED <<runNo, driver, browsers, failed_files, url, captchaShown, lg, folders,
                 fi, ex, downloads, tree, gui, net, obs>>

\* one pass of "for (folder_name, folder_selector), files in
\* files_by_folder.items()", and what follows the loop
RetryFolder ==
  /\ pc = "retry_loop"
  /\ IF retry.at <= Len(retry.files_by_folder)
     THEN \E r \in ExportSummaries :
            LET key == retry.files_by_folder[retry.at]
                record == [folder_name |-> key.folder_name,
                           folder_selector |-> key.folder_selector,
                           file_index |-> 1, file_title |-> "A", error |-> "row"]
            IN  /\ stats' = [stats EXCEPT
                               !.successful_files = @ + r.success,
                               !.failed_files = @ + r.fail,
                               !.errors = IF r.fail = 1 THEN Append(@, "row") ELSE @]
                /\ failed_files' = IF r.fail = 1 THEN Append(failed_files, record)
                                   ELSE failed_files
                /\ retry' = [retry EXCEPT !.calls = Append(@, key), !.at = @ + 1]
                /\ pc' = "retry_loop"
     ELSE /\ stats' = [stats EXCEPT !.success = TRUE, !.failed_file_details = failed_files]
          /\ pc' = "retry_finally"
          /\ UNCHANGED <<failed_files, retry>>
  /\ UNCHANGED <<runNo, driver, browsers, url, captchaShown, lg, folders, fi, ex,
                 downloads, tree, gui, net, obs>>

\* finally: if self.driver: self.driver.quit(); return stats
RetryFinally ==
  /\ pc = "retry_finally"
  /\ browsers' = IF driver # 0 THEN [browsers EXCEPT ![driver] = "quit"] ELSE browsers
  /\ pc' = "retry_returned"
  /\ UNCHANGED <<runNo, driver, failed_files, stats, url, captchaShown, lg, folders, fi,
                 ex, downloads, tree, gui, net, retry, obs>>

NextRetry ==
  \/ RetryStart \/ RetrySetupDriver \/ RetryLogin \/ RetryFolder \/ RetryFinally

SpecRetry == InitRetry /\ [][NextRetry]_vars

\* --------------------------------------------- the item loop on one page
\* the per-item loop of export_folder_files on a page that shows every
\* document of the folder at once
\* the rows of the grid when the whole folder is on one page
AllRows(id) ==
  [i \in DOMAIN RemoteDocs(id) |->
     [title |-> RemoteDocs(id)[i].title, size |-> RemoteDocs(id)[i].size, doc |-> <<id, i>>]]

\* export_folder_files has opened the first folder and found its checkboxes;
\* the header count could not be read
InitItems ==
  /\ pc = "item" /\ runNo = 1 /\ driver = 1 /\ browsers = <<"running">>
  /\ failed_files = <<>> /\ stats = [ZeroStats EXCEPT !.total_folders = 1]
  /\ url = "dashboard" /\ captchaShown = FALSE /\ lg = LoginLocals
  /\ folders = get_folders_simple(<<[test_id |-> "mycabinet-1",
                                      title |-> FolderTitle("mycabinet-1")]>>)
  /\ fi = 1
  /\ ex = [ExportLocals EXCEPT !.folder_name = folders[1].name,
                               !.folder_id = folders[1].id,
                               !.folder_selector = folders[1].selector,
                               !.checkboxes = AllRows(folders[1].id)]
  /\ downloads \in {<<>>, <<StaleDownload>>}
  /\ tree = <<>>
  /\ gui = NoGui /\ net = NoNet /\ retry = NoRetry /\ obs = NoObs

NextItems == ExportItem \/ ExportPages \/ ExportReturn

SpecItems == InitItems /\ [][NextItems]_vars

\* ------------------------------------------------- the GUI's worker threads
\* start_backup, stop_backup, backup_complete and run_backup_thread with every
\* thread that start_backup starts kept track of.  What run_backup does
\* inside a thread is followed under SpecGui; here a thread is started, runs
\* and delivers its result.
\* threads started in one behaviour
MaxWorkers == 3

InitThreads ==
  /\ InitBot
  /\ downloads = <<>> /\ tree = <<>>
  /\ gui = [NoGui EXCEPT !.window = TRUE]
  /\ net = NoNet /\ retry = NoRetry /\ obs = NoObs

\* start_backup: without credentials an error box and return; otherwise the
\* buttons are switched and a new daemon thread is started, whatever became
\* of the threads started before
StartBackupThread ==
  /\ gui.window /\ gui.start_btn = "normal"
  /\ Len(gui.threads) < MaxWorkers /\ gui.starts < MaxWorkers
  /\ \E entered \in BOOLEAN :
       IF ~entered
       THEN gui' = [gui EXCEPT !.starts = @ + 1,
                               !.dialogs = Append(@, [box |-> "showerror", start |-> 0])]
       ELSE gui' = [gui EXCEPT !.starts = @ + 1,
                               !.start_btn = "disabled", !.stop_btn = "normal",
                               !.threads = Append(@, "started")]
  /\ UNCHANGED <<pc, runNo, driver, browsers, failed_files, stats, url, captchaShown,
                 lg, folders, fi, ex, downloads, tree, net, retry, obs>>

\* run_backup_thread in thread i: self.bot = NeatBot(...), then run_backup
ThreadRuns ==
  /\ \E i \in DOMAIN gui.threads :
       /\ gui.threads[i] = "started"
       /\ gui' = [gui EXCEPT !.threads[i] = "running", !.bot = @ + 1,
                             !.status_callback = "log_status"]
  /\ UNCHANGED <<pc, runNo, driver, browsers, failed_files, stats, url, captchaShown,
                 lg, folders, fi, ex, downloads, tree, net, retry, obs>>

\* run_backup returned in thread i, or raised: backup_complete is queued
\* with root.after and the thread ends
ThreadDelivers ==
  /\ \E i \in DOMAIN gui.threads, success \in BOOLEAN :
       /\ gui.threads[i] = "running"
       /\ gui' = [gui EXCEPT !.threads[i] = "finished",
                             !.log_status_ran_on = @ \cup {"worker"},
                             !.events = Append(@, [fn |-> "backup_complete", start |-> i,
                                                   success |-> success])]
  /\ UNCHANGED <<pc, runNo, driver, browsers, failed_files, stats, url, captchaShown,
                 lg, folders, fi, ex, downloads, tree, net, retry, obs>>

NextThreads ==
  \/ StartBackupThread \/ StopBackup \/ BackupComplete
  \/ ThreadRuns \/ ThreadDelivers

SpecThreads == InitThreads /\ [][NextThreads]_vars

\* ------------------------------------------------------------------ claims
OrgTaken == <<obs.org.folder, PlainName(obs.org.source.stem)>> \in DOMAIN obs.org.before
OrgDest == <<obs.org.folder, obs.org.result>>

\* C3: organize_file loses nothing at the destination: every file that was in
\* the destination folder before the call is still there with the same
\* content, and when the source's name is taken the source is stored under
\* the first numbered name stem_1, stem_2, ... that was unused before the call.
C3_OrganizerKeepsDestination ==
  obs.org.called =>
    /\ \A p \in DOMAIN obs.org.before :
         p \in DOMAIN tree /\ tree[p] = obs.org.before[p]
    /\ obs.org.result = "None" => tree = obs.org.before
    /\ obs.org.result # "None" =>
         /\ OrgDest \notin DOMAIN obs.org.before
         /\ OrgDest \in DOMAIN tree
         /\ tree[OrgDest] = Content(obs.org.source)
         /\ OrgTaken =>
              \E k \in 1..(Cardinality(DOMAIN obs.org.before) + 1) :
                /\ obs.org.result = NumberedName(obs.org.source.stem, k)
                /\ \A j \in 1..(k - 1) :
                     <<obs.org.folder, NumberedName(obs.org.source.stem, j)>>
                        \in DOMAIN obs.org.before

\* C3 witness: the source's name and its first numbered name were both taken,
\* and the source went to the second numbered name.
C3_Witness ==
  /\ obs.org.called /\ obs.org.result # "None" /\ OrgTaken
  /\ obs.org.result = NumberedName(obs.org.source.stem, 2)

\* C4 (as claimed): when the destination already holds a file of the
\* document's name and of the same byte size, the document is skipped: no new
\* file is created.
C4_SameSizeIsSkipped ==
  (/\ obs.org.called /\ obs.org.result # "None" /\ OrgTaken
   /\ obs.org.before[<<obs.org.folder, PlainName(obs.org.source.stem)>>].size
        = obs.org.source.size)
  => DOMAIN tree = DOMAIN obs.org.before

\* C5 (as claimed): a second run against the unchanged remote folders, after a
\* first run that exported every document, leaves the backup tree with the
\* same set of files as the first run did.
C5_SecondRunAddsNothing ==
  (pc = "done" /\ obs.cleanRuns = 2) => DOMAIN tree = DOMAIN obs.treeAfterClean

LastOf(seq) == seq[Len(seq)]
ItemJustRaised == obs.item.kind = "item" /\ obs.item.raised

\* C1 (as claimed): an exception while processing one item adds exactly one to
\* failed_count, appends one error string that identifies that item (its
\* title, or "File <idx>" when the title could not be read) and one
\* failed-file record for it, and the loop goes on to the next item.
C1_ItemExceptionIsOneFailure ==
  ItemJustRaised =>
    /\ ex.failed_count = obs.item.failedBefore + 1
    /\ ex.exported_count \in {obs.item.exportedBefore, obs.item.exportedBefore + 1}
    /\ Len(ex.errors) = Len(obs.item.errorsBefore) + 1
    /\ Prefix(ex.errors, Len(obs.item.errorsBefore)) = obs.item.errorsBefore
    /\ LastOf(ex.errors).context \in {obs.item.title, "File " \o ToString(obs.item.idx)}
    /\ Len(failed_files) = Len(obs.item.ffBefore) + 1
    /\ Prefix(failed_files, Len(obs.item.ffBefore)) = obs.item.ffBefore
    /\ LastOf(failed_files).file_index = obs.item.idx
    /\ LastOf(failed_files).folder_name = ex.folder_name
    /\ pc \in {"item", "pages"}
    /\ ex.idx = obs.item.idx + 1

\* C2 (as claimed): when export_folder_files returns from its loops, every item
\* it processed was counted once, as a success or as a failure:
\* exported_count + failed_count is the number of items processed.
C2_EveryItemCountedOnce ==
  (pc = "export_return" /\ ~ex.folder_failed) =>
     ex.exported_count + ex.failed_count = obs.processed

FolderIdsOf(fs) == [i \in DOMAIN fs |-> fs[i].id]

\* C6: a folder that fails at folder level does not abort the run: when
\* run_backup returns after such a failure, export_folder_files was called for
\* every folder get_folders returned, in order, and success is True.
C6_FolderFailureDoesNotAbort ==
  /\ (pc = "done" /\ obs.failedFolders # {}) =>
        /\ obs.exportCalls = FolderIdsOf(folders)
        /\ stats.success
  /\ (pc \in {"loop", "open", "item", "pages", "export_return"}) =>
        obs.exportCalls = FolderIdsOf(Prefix(folders, Len(obs.exportCalls)))

\* C6 witness: the first of two folders failed at folder level, the second was
\* exported after it, and the run ended with success.
C6_Witness ==
  /\ pc = "done" /\ 1 \in obs.failedFolders /\ Len(folders) = 2
  /\ Len(obs.exportCalls) = 2 /\ stats.success /\ stats.successful_files > 0

\* C7 (as claimed): the result export_folder_files returns for a folder that
\* failed at folder level carries a folder-wide error string in its error list.
C7_FolderFailureInErrorList ==
  (pc = "export_return" /\ ex.folder_failed) =>
     \E i \in DOMAIN ex.errors : ex.errors[i].context = "Folder"

\* C8: when login does not return True, or the browser does not launch,
\* run_backup calls neither get_folders nor export_folder_files, returns stats
\* with success False and every count zero, and no browser is left running.
C8_SessionFailureAbortsRun ==
  (pc = "done" /\ lg.result # "true") =>
     /\ ~obs.getFoldersCalled
     /\ obs.exportCalls = <<>>
     /\ stats = ZeroStats
     /\ \A b \in DOMAIN browsers : browsers[b] = "quit"

\* C8 witness: a browser was launched, login returned False, the run is over.
C8_Witness ==
  pc = "done" /\ lg.result = "false" /\ driver # 0 /\ browsers[driver] = "quit"

\* C9: login hands its caller True or False, never an exception, and True only
\* with the browser at the authenticated area.
C9_LoginNeverRaises ==
  pc = "login_return" =>
     /\ lg.result \in {"true", "false"}
     /\ lg.result = "true" => (url = "dashboard" /\ lg.sawDashboard)

\* C9 witness: the wait for the dashboard after the submit click raised, and
\* login returned False.
C9_Witness ==
  pc = "login_return" /\ lg.submitClicked /\ lg.result = "false"

\* C10: with a challenge detected, every poll starts less than 60 seconds after
\* the wait began; a poll that finds the dashboard URL or no displayed
\* challenge ends the wait as solved, and no other poll does; when the window
\* closes unsolved, login returns False and the submit button was not clicked.
C10_ChallengeWait ==
  /\ lg.polledAt < CaptchaTimeout
  /\ lg.pollSaw = "clear" => (lg.captcha_solved /\ pc # "login_poll")
  /\ lg.captcha_solved => lg.pollSaw = "clear"
  /\ lg.pollSaw = "challenge" => (~lg.captcha_solved /\ pc \in {"login_poll", "login_return"})
  /\ lg.timedOut =>
       /\ pc = "login_return" /\ lg.result = "false"
       /\ ~lg.submitClicked /\ ~lg.captcha_solved
       /\ lg.waited >= CaptchaTimeout

\* C10 witness: the challenge stayed for the whole window and login gave up.
C10_Witness ==
  lg.timedOut /\ lg.captcha_detected /\ pc = "login_return" /\ lg.result = "false"

CabinetRoot == "sidebar-item-mycabinet"
Readable(e) == e.test_id # CabinetRoot /\ e.title # <<>>
\* positions of the sidebar elements that are readable folders and whose test
\* id no readable folder before them carries
Kept(elems) ==
  { i \in DOMAIN elems :
      /\ Readable(elems[i])
      /\ \A j \in 1..(i - 1) : ~(Readable(elems[j]) /\ elems[j].test_id = elems[i].test_id) }

\* C12: get_folders returns no test id twice, never the cabinet root, no
\* element without a display name, and exactly the first readable occurrence
\* of every folder in the order of the sidebar; when the cabinet or the
\* sidebar cannot be read it returns the empty list.
C12_GetFoldersUniqueInOrder ==
  (obs.call.fn = "get_folders" /\ obs.call.returned) =>
    LET elems == obs.call.elems
    IN  /\ \A i, j \in DOMAIN folders : i # j => folders[i].id # folders[j].id
        /\ \A i \in DOMAIN folders : folders[i].id # CabinetRoot /\ folders[i].name # <<>>
        /\ obs.call.raises => folders = <<>>
        /\ ~obs.call.raises =>
             /\ Len(folders) = Cardinality(Kept(elems))
             /\ \A k \in DOMAIN folders :
                  \E i \in Kept(elems) :
                    /\ Cardinality({j \in Kept(elems) : j < i}) = k - 1
                    /\ folders[k] = [name |-> elems[i].title, id |-> elems[i].test_id,
                                     selector |-> Selector(elems[i].test_id)]

\* C12 witness: the sidebar showed the same folder twice after an element
\* without a name, and get_folders returned that folder once.
C12_Witness ==
  /\ obs.call.fn = "get_folders" /\ obs.call.returned /\ ~obs.call.raises
  /\ Len(obs.call.elems) = 3 /\ Len(folders) = 1
  /\ obs.call.elems[1].title = <<>>
  /\ Readable(obs.call.elems[2]) /\ obs.call.elems[3] = obs.call.elems[2]

SlashCount(s) == Cardinality({i \in DOMAIN s : s[i] = "/"})
\* the segment with every unsafe character replaced by an underscore
Replaced(part) == [i \in DOMAIN part |-> IF part[i] \in UnsafeChars THEN "_" ELSE part[i]]
\* out is part without its leading and its trailing whitespace
Trimmed(part, out) ==
  \E a \in 1..(Len(part) + 1), b \in 0..Len(part) :
    /\ out = SubSeq(part, a, b)
    /\ \A i \in 1..(a - 1) : part[i] \in Whitespace
    /\ \A i \in (b + 1)..Len(part) : part[i] \in Whitespace
    /\ out # <<>> => (out[1] \notin Whitespace /\ out[Len(out)] \notin Whitespace)
ExampleResult ==
  <<"2", "0", "1", "3", " ", "y", "e", "a", "r", " ", "T", "A", "X", "/",
    "R", "e", "c", "e", "i", "p", "t", "s", "_", " ", "Q", "1">>

\* C13: sanitize_folder_name keeps the number and the order of the segments
\* between slashes, and each segment of the result is the segment of the name
\* with every unsafe character replaced by an underscore and without leading
\* and trailing whitespace; "2013 year TAX/Receipts: Q1" becomes
\* "2013 year TAX/Receipts_ Q1".
C13_SanitizePerSegment ==
  (obs.call.fn = "sanitize_folder_name" /\ obs.call.returned) =>
    LET ins == SplitSlash(obs.call.name)
        outs == SplitSlash(obs.call.result)
    IN  /\ SlashCount(obs.call.result) = SlashCount(obs.call.name)
        /\ Len(outs) = Len(ins)
        /\ \A i \in DOMAIN obs.call.result : obs.call.result[i] \notin UnsafeChars
        /\ \A k \in DOMAIN ins : Trimmed(Replaced(ins[k]), outs[k])
        /\ obs.call.name = ExampleName => obs.call.result = ExampleResult

\* C13 witness: a name of two segments, the first with a leading blank and an
\* unsafe character, the second only a blank.
C13_Witness ==
  /\ obs.call.fn = "sanitize_folder_name" /\ obs.call.returned
  /\ obs.call.name = <<" ", ":", "/", " ">>
  /\ obs.call.result = <<"_", "/">>

\* the inclusive ranges the claim names
ClaimedRange(key) ==
  IF key = "wait_timeout" THEN 1..60
  ELSE IF key = "download_timeout" THEN 5..300
  ELSE 0..10
BetweenError(key) ==
  \E i \in DOMAIN obs.call.result.errors :
    /\ obs.call.result.errors[i].key = key
    /\ obs.call.result.errors[i].what = "must be between"
    /\ obs.call.result.errors[i].min_val = CHOOSE n \in ClaimedRange(key) :
                                             \A m \in ClaimedRange(key) : n <= m
    /\ obs.call.result.errors[i].max_val = CHOOSE n \in ClaimedRange(key) :
                                             \A m \in ClaimedRange(key) : n >= m

\* C14: validate returns is_valid true exactly when the error list is empty,
\* and the list holds a "must be between" error for a numeric setting exactly
\* when its number lies outside the inclusive range of the setting
\* (wait_timeout 1..60, download_timeout 5..300, delay_between_files 0..10);
\* wait_timeout = 120 is rejected with "must be between 1 and 60".
C14_ValidateRanges ==
  (obs.call.fn = "validate" /\ obs.call.returned) =>
    /\ obs.call.result.is_valid <=> obs.call.result.errors = <<>>
    /\ \A key \in {"wait_timeout", "download_timeout", "delay_between_files"} :
         LET value == obs.call.settings[key]
         IN  BetweenError(key) <=> (value.kind = "int" /\ value.v \notin ClaimedRange(key))
    /\ obs.call.settings.wait_timeout = IntValue(120) =>
         (~obs.call.result.is_valid /\ BetweenError("wait_timeout"))

\* C14 witness: wait_timeout = 120 with the other two settings on an end of
\* their ranges: the only error is the one for wait_timeout.
C14_Witness ==
  /\ obs.call.fn = "validate" /\ obs.call.returned
  /\ obs.call.settings.wait_timeout = IntValue(120)
  /\ obs.call.settings.download_timeout = IntValue(5)
  /\ obs.call.settings.delay_between_files = IntValue(10)
  /\ ~obs.call.result.is_valid /\ Len(obs.call.result.errors) = 1
  /\ obs.call.result.errors[1].got = 120

\* C15 (as claimed): the stats of a run that was stopped while it was running
\* are discarded: no backup_complete callback is queued for it and no
\* completion dialog is shown for it.
C15_StoppedRunShowsNoSummary ==
  /\ \A i \in DOMAIN gui.events : gui.events[i].start \notin gui.stopped
  /\ \A i \in DOMAIN gui.dialogs : gui.dialogs[i].start \notin gui.stopped

\* C16 (as claimed): once the worker runs, only the worker calls into the
\* bot's driver: the main thread never calls driver.quit() while the worker is
\* between setup_driver and the end of run_backup.
C16_DriverOnlyFromWorker ==
  gui.quit_by_main_at \in {"none", "done", "finished"}

\* C17 (as claimed): log_status is executed by the main thread only; the
\* worker never executes it.
C17_LogStatusOnMainThread ==
  "worker" \notin gui.log_status_ran_on

\* C18 (as claimed): failed_files is empty when a run starts, and processing
\* an item appends one record exactly when the item was not exported, so the
\* list holds the failures of the run in progress and nothing else.
C18_FailedFilesAreThisRunsFailures ==
  /\ pc = "setup" => failed_files = <<>>
  /\ obs.item.kind = "item" =>
       /\ Prefix(failed_files, Len(obs.item.ffBefore)) = obs.item.ffBefore
       /\ ~obs.org.called => Len(failed_files) = Len(obs.item.ffBefore) + 1
       /\ obs.org.called => failed_files = obs.item.ffBefore

\* a completed listing response: status 200 on the entities URL with a body
\* that has an entities array
ValidListing(e) == e.url = "entities" /\ e.status = 200 /\ e.body = "entities"

\* C19 (as claimed): a folder for which the interception window observed a
\* completed listing response caused by opening it, every listing observed
\* having zero entities, is not reported as an interception failure.
C19_EmptyListingIsAnObservation ==
  (/\ net.phase = "returned"
   /\ \E i \in DOMAIN net.seen : ValidListing(net.seen[i]) /\ net.seen[i].cause = net.fi
   /\ \A i \in DOMAIN net.seen : ValidListing(net.seen[i]) => net.seen[i].n = 0)
  => net.returned.kind # "failed"

\* C20 (as claimed): every response collected for a folder, and the listing
\* returned for it, was received after the folder was opened.
C20_ListingIsOfThisFolder ==
  net.phase \in {"intercept", "intercepted", "listed"} =>
    /\ \A i \in DOMAIN net.all_responses : net.all_responses[i].cause = net.fi
    /\ net.entities.n > 0 => net.entities.cause = net.fi

\* the longest the loop of _intercept_api_response can run: the last pass
\* starts just before max_wait and ends one sleep later
WaitBound(variant) == max_wait(variant) + InterceptSleep + MaxPollJitter

\* C21: when the interception window of an opened folder hands over no
\* listing response at all, the helper returns the empty list within its
\* bounded wait, and export_folder_files returns (0, 0, [one error string])
\* without processing an item and without raising; the run can go on to the
\* next folder.
C21_NothingObservedIsOneFolderError ==
  (/\ net.phase \in {"intercepted", "listed", "returned"}
   /\ net.opened = net.fi
   /\ \A i \in DOMAIN net.seen : ~ValidListing(net.seen[i]))
  => /\ net.entities = NoEntities
     /\ net.elapsed < WaitBound(net.variant)
     /\ net.phase # "listed"
     /\ net.phase = "returned" =>
          /\ net.returned.kind = "failed"
          /\ net.returned.exported_count = 0 /\ net.returned.failed_count = 0
          /\ Len(net.returned.errors) = 1
          /\ net.fi < Len(NetFolders) => ENABLED NextFolderNet

C21_Witness ==
  /\ net.phase = "open" /\ net.fi = 2
  /\ net.returned.kind = "failed"
  /\ net.seen # <<>>
  /\ \A i \in DOMAIN net.seen : ~ValidListing(net.seen[i])

\* the listing responses with entities that one window handed over, and the
\* request ids among them
ListingsSeen == {i \in DOMAIN net.seen : ValidListing(net.seen[i]) /\ net.seen[i].n > 0}
IdsSeen == {net.seen[i].id : i \in ListingsSeen}

\* C22: when the helper has returned, every request id was collected at most
\* once, and the result is one collected response whose entity count is the
\* greatest of the listings handed over in the window: never more than one
\* response holds (no union).
C22_LargestResponseWins ==
  net.phase \in {"intercepted", "listed"} =>
    /\ \A i, j \in DOMAIN net.all_responses :
          net.all_responses[i].id = net.all_responses[j].id => i = j
    /\ {net.all_responses[i].id : i \in DOMAIN net.all_responses} = IdsSeen
    /\ ListingsSeen # {} =>
          /\ \E i \in ListingsSeen :
                net.seen[i].id = net.entities.id /\ net.seen[i].n = net.entities.n
          /\ \A i \in ListingsSeen : net.seen[i].n <= net.entities.n

\* two different responses, the larger one handed over first: the larger
\* one is the result
C22_Witness ==
  /\ net.phase = "listed"
  /\ \E i, j \in ListingsSeen :
        /\ net.seen[i].id # net.seen[j].id
        /\ net.seen[i].n < net.seen[j].n
        /\ net.entities.id = net.seen[j].id /\ net.entities.n = net.seen[j].n
        /\ i > j

\* the newest poll found the expected total
Reached(e) == e.expected_total > 0 /\ e.recent[Len(e.recent)] >= e.expected_total
\* each of the three newest polls found the count of the poll before it
Stagnant(e) ==
  /\ Len(e.recent) >= 4
  /\ \A k \in 0..2 : e.recent[Len(e.recent) - k] = e.recent[Len(e.recent) - k - 1]

\* the loop is left for a reason the claim names, at the first poll that
\* gives one, and never after more than 20 scrolls
ScrollStops ==
  /\ ex.scroll_attempts <= 20 /\ ex.polls <= ex.scroll_attempts + 1
  /\ ex.exit = "reached" => Reached(ex)
  /\ ex.exit = "stagnant" => Stagnant(ex) /\ ~Reached(ex)
  /\ ex.exit = "attempts" => ex.scroll_attempts = 20
  /\ (ex.polls > 0 /\ ex.exit \in {"none", "attempts"}) => ~Reached(ex) /\ ~Stagnant(ex)

\* C23: the scroll loop stops as soon as the count reaches the expected
\* total or has been unchanged for three polls in a row, after at most 20
\* scrolls in every case, and it always ends.
C23_ScrollLoopStops ==
  /\ []((pc \in {"scroll", "scrolled", "counted"}) => ScrollStops)
  /\ <>(pc \in {"counted", "scroll_raised"})

C23_Witness ==
  /\ pc = "counted" /\ ex.exit = "stagnant" /\ ex.scroll_attempts > 3
  /\ ex.expected_total > ex.total_files

\* the folders with a recorded failure
KeysToRetry == {folder_key(retry.files_to_retry[i]) : i \in DOMAIN retry.files_to_retry}

C28_FailedRetryKeepsTheList ==
  (/\ pc = "retry_returned" /\ ~stats.success
   /\ retry.files_to_retry # <<>> /\ retry.calls = <<>>)
  => failed_files = retry.files_to_retry

\* C25 (as claimed): the next-page control is clicked only while fewer items
\* were counted than expected, and a pass of the next-page loop that does
\* not leave the loop ends with more items counted than it began with (which
\* is what makes the loop end).
C25_NextPageLoopProgresses ==
  ex.page_number > 1 =>
    /\ obs.pageStart < ex.expected_total
    /\ pc = "pages" => ex.exported_count + ex.failed_count > obs.pageStart

\* C26 (as claimed): when the Export action is clicked for an item, the
\* checkbox of that item is the only one selected on the page.
C26_OnlyThisItemSelected ==
  (obs.item.kind = "item" /\ obs.item.stage = "download") =>
    obs.item.selectedAtExport = {obs.item.idx}

\* C27 (as claimed): the file an item moves into the backup tree and counts
\* as its export is the file its own export action downloaded, never a .pdf
\* that was in the download directory before.
C27_OnlyOwnDownloadIsMoved ==
  (obs.item.kind = "item" /\ obs.org.called) =>
    /\ obs.item.started
    /\ obs.org.source.doc = obs.item.doc

\* the threads started by start_backup that have not ended
ActiveWorkers == {i \in DOMAIN gui.threads : gui.threads[i] # "finished"}

\* C29 (as claimed): at most one backup worker thread is active at any time.
C29_OneWorkerAtATime ==
  Cardinality(ActiveWorkers) <= 1

\* C30: when run_backup returns with success = True, total_files is
\* successful_files + failed_files, and failed_files is the length of errors
\* and of failed_file_details.
C30_StatsAreConsistent ==
  (pc \in {"finally", "done"} /\ stats.success) =>
    /\ stats.total_files = stats.successful_files + stats.failed_files
    /\ stats.failed_files = Len(stats.errors)
    /\ stats.failed_files = Len(stats.failed_file_details)

C30_Witness ==
  /\ pc = "done" /\ stats.success
  /\ stats.failed_files = 2 /\ stats.successful_files = 1
  /\ obs.failedFolders # {}

====
